---- MODULE Spec2Model ----
(***************************************************************************)
(* A model of s2protocol.py: the command line driver that decodes a        *)
(* replay archive with the protocol module its header names and sends the  *)
(* decoded events through a chain of filters.                              *)
(*                                                                         *)
(* Python values are tagged records [t |-> type name, v |-> payload]:      *)
(*   bool  v is a BOOLEAN            int   v is an integer                 *)
(*   str   v is a sequence of character codes (a Python 2 byte string)     *)
(*   list  v is a sequence of values tuple v is a sequence of values       *)
(*   dict  v is a function from key names to values                        *)
(*   json  v is the value whose JSON text the string holds                 *)
(***************************************************************************)
EXTENDS Integers, Sequences, FiniteSets, TLC

VARIABLES
    args,       \* the parsed command line (argparse namespace)
    pc,         \* main()'s position
    filters,    \* main()'s list of filters, as filter names
    header,     \* the decoded replay header
    protocol,   \* the imported protocol module (its build), 0 when none
    gen,        \* the event generator main() is iterating, if any
    emitted,    \* how many sequence events the decoders have yielded so far
    trace,      \* every read, decode, delivery, filter call and finish, in order
    event_stats,\* StatCollectionFilter._event_stats
    stdout,     \* what has been printed to sys.stdout
    exitcode,   \* the process's exit status, -1 while running
    handle,     \* cache_handle_uri's argument (the translator on its own)
    uri,        \* cache_handle_uri's outcome for handle
    fcc_hex,    \* convert_fourcc's argument (convert_fourcc on its own)
    fcc,        \* convert_fourcc's outcome for fcc_hex
    td_event,   \* TypeDumpFilter.process's argument (the type dump on its own)
    td_result   \* TypeDumpFilter.process's outcome for td_event

vars == <<args, pc, filters, header, protocol, gen, emitted, trace,
          event_stats, stdout, exitcode, handle, uri, fcc_hex, fcc,
          td_event, td_result>>

\* the function under test of each specification that runs one function alone
unitVars == <<handle, uri, fcc_hex, fcc, td_event, td_result>>

mainVars == <<args, pc, filters, header, protocol, gen, emitted, trace,
              event_stats, stdout, exitcode>>

(***************************************************************************)
(* Bounds.                                                                 *)
(***************************************************************************)
\* the decoders yield at most this many sequence events in one run
MaxEvents == 2
\* the longest cache handle the translator is given, in bytes beyond the layout's minimum
MaxExtraBytes == 2

(***************************************************************************)
(* Python values.                                                          *)
(***************************************************************************)
PyBool(b) == [t |-> "bool", v |-> b]
PyInt(n) == [t |-> "int", v |-> n]
PyStr(s) == [t |-> "str", v |-> s]
PyList(s) == [t |-> "list", v |-> s]
PyTuple(s) == [t |-> "tuple", v |-> s]
PyDict(f) == [t |-> "dict", v |-> f]

Min(a, b) == IF a < b THEN a ELSE b

\* s[a:b] of a Python sequence, 0 <= a <= b
Slice(s, a, b) == SubSeq(s, a + 1, Min(b, Len(s)))

\* s[a:]
SliceFrom(s, a) == SubSeq(s, a + 1, Len(s))

\* the character codes of the literals the translator uses
Chr(c) ==
    CASE c = "h" -> 104 [] c = "t" -> 116 [] c = "p" -> 112 [] c = ":" -> 58
      [] c = "/" -> 47 [] c = "." -> 46 [] c = "d" -> 100 [] c = "e" -> 101
      [] c = "o" -> 111 [] c = "b" -> 98 [] c = "a" -> 97 [] c = "l" -> 108
      [] c = "n" -> 110 [] c = "1" -> 49 [] c = "9" -> 57 [] c = "s" -> 115
      [] c = "2" -> 50 [] c = "m" -> 109 [] c = "u" -> 117 [] c = "U" -> 85
      [] c = "S" -> 83 [] c = "E" -> 69 [] c = "B" -> 66 [] c = "c" -> 99
      [] c = "i" -> 105 [] c = "r" -> 114 [] c = "_" -> 95 [] c = "g" -> 103
      [] c = "v" -> 118 [] c = "j" -> 106 [] c = "f" -> 102 [] c = "0" -> 48
      [] c = "4" -> 52 [] c = "3" -> 51

Str(cs) == [i \in 1..Len(cs) |-> Chr(cs[i])]

RECURSIVE Concat(_)
\* ''.join(parts)
Concat(parts) ==
    IF parts = <<>> THEN <<>> ELSE Head(parts) \o Concat(Tail(parts))

\* str.lower() of a byte string: only A-Z change
Lower(s) == [i \in 1..Len(s) |-> IF s[i] >= 65 /\ s[i] <= 90 THEN s[i] + 32 ELSE s[i]]

\* one hexadecimal digit, as binascii.b2a_hex writes it (lower case)
HexDigit(n) == IF n < 10 THEN 48 + n ELSE 87 + n

RECURSIVE b2a_hex(_)
\* binascii.b2a_hex: two digits per byte
b2a_hex(bytes) ==
    IF bytes = <<>> THEN <<>>
    ELSE <<HexDigit(Head(bytes) \div 16), HexDigit(Head(bytes) % 16)>>
         \o b2a_hex(Tail(bytes))

\* the value of one hexadecimal digit, -1 for any other character
DigitValue(c) ==
    IF c >= 48 /\ c <= 57 THEN c - 48
    ELSE IF c >= 97 /\ c <= 102 THEN c - 87
    ELSE IF c >= 65 /\ c <= 70 THEN c - 55
    ELSE -1

\* int(s, 16) of an at most two character slice: -1 stands for ValueError,
\* which int() raises for the empty string and for a non-digit
int16(s) ==
    IF s = <<>> \/ \E i \in 1..Len(s) : DigitValue(s[i]) < 0 THEN -1
    ELSE IF Len(s) = 1 THEN DigitValue(s[1])
    ELSE 16 * DigitValue(s[1]) + DigitValue(s[2])

(***************************************************************************)
(* convert_fourcc and cache_handle_uri.  An outcome is [err, val]: err is  *)
(* "none" and val the returned string, or err names the exception raised.  *)
(***************************************************************************)
Returned(val) == [err |-> "none", val |-> val]
Raised(e) == [err |-> e, val |-> <<>>]

RECURSIVE fourcc_loop(_, _, _)
\* the loop of convert_fourcc from index i on, s the characters so far
fourcc_loop(fourcc_hex, i, s) ==
    IF i >= 7 THEN Returned(s)
    ELSE LET n == int16(Slice(fourcc_hex, i, i + 2))
         IN  IF n < 0 THEN Raised("ValueError")
             ELSE fourcc_loop(fourcc_hex, i + 2, IF n # 0 THEN Append(s, n) ELSE s)

RECURSIVE fourcc_loop_terminator(_, _, _)
\* a loop that takes a zero byte for the end of the code
fourcc_loop_terminator(fourcc_hex, i, s) ==
    IF i >= 7 THEN Returned(s)
    ELSE LET n == int16(Slice(fourcc_hex, i, i + 2))
         IN  IF n < 0 THEN Raised("ValueError")
             ELSE IF n = 0 THEN Returned(s)
             ELSE fourcc_loop_terminator(fourcc_hex, i + 2, Append(s, n))

convert_fourcc_terminator(fourcc_hex) == fourcc_loop_terminator(fourcc_hex, 0, <<>>)

convert_fourcc(fourcc_hex) == fourcc_loop(fourcc_hex, 0, <<>>)

\* a translator that takes the first code for the region
cache_handle_uri_swapped(h) ==
    LET handle_hex == b2a_hex(h)
        region == convert_fourcc(Slice(handle_hex, 0, 8))
        purpose == convert_fourcc(Slice(handle_hex, 8, 16))
        content_hash == SliceFrom(handle_hex, 16)
    IN  IF purpose.err # "none" THEN purpose
        ELSE IF region.err # "none" THEN region
        ELSE Returned(Concat(<<Str(<<"h", "t", "t", "p", ":", "/", "/">>),
                               Lower(region.val),
                               Str(<<".", "d", "e", "p", "o", "t", ".", "b", "a", "t",
                                     "t", "l", "e", ".", "n", "e", "t", ":", "1", "1",
                                     "1", "9", "/">>),
                               Lower(content_hash),
                               Str(<<".">>),
                               Lower(purpose.val)>>))

cache_handle_uri(h) ==
    LET handle_hex == b2a_hex(h)
        purpose == convert_fourcc(Slice(handle_hex, 0, 8))
        region == convert_fourcc(Slice(handle_hex, 8, 16))
        content_hash == SliceFrom(handle_hex, 16)
    IN  IF purpose.err # "none" THEN purpose
        ELSE IF region.err # "none" THEN region
        ELSE Returned(Concat(<<Str(<<"h", "t", "t", "p", ":", "/", "/">>),
                               Lower(region.val),
                               Str(<<".", "d", "e", "p", "o", "t", ".", "b", "a", "t",
                                     "t", "l", "e", ".", "n", "e", "t", ":", "1", "1",
                                     "1", "9", "/">>),
                               Lower(content_hash),
                               Str(<<".">>),
                               Lower(purpose.val)>>))

(***************************************************************************)
(* The command line.                                                       *)
(***************************************************************************)
ArgNames == {"gameevents", "messageevents", "trackerevents", "attributeevents",
             "header", "details", "initdata", "all", "quiet", "stats", "json",
             "types"}

\* parser.parse_args(): every flag is an independent store_true toggle
ParseArgs == [ArgNames -> BOOLEAN]

(***************************************************************************)
(* The archive and the protocol modules: what the decoders hand back.      *)
(***************************************************************************)
\* builds with a protocol module, and those whose module decodes tracker events
RegisteredBuilds == {15405, 26490}
TrackerBuilds == {26490}
\* the base builds a header may carry
Builds == RegisteredBuilds \cup {12345}

Streams == <<"details", "initdata", "gameevents", "messageevents",
             "trackerevents", "attributeevents">>

SequenceStreams == {"gameevents", "messageevents", "trackerevents"}

Member(stream) ==
    CASE stream = "details" -> "replay.details"
      [] stream = "initdata" -> "replay.initData"
      [] stream = "gameevents" -> "replay.game.events"
      [] stream = "messageevents" -> "replay.message.events"
      [] stream = "trackerevents" -> "replay.tracker.events"
      [] stream = "attributeevents" -> "replay.attributes.events"

\* decode_replay_header's result
HeaderEvent(build) ==
    PyDict([m_version |-> PyDict([m_baseBuild |-> PyInt(build)])])

\* decode_replay_details' result
DetailsEvent == PyDict([m_title |-> PyStr(Str(<<"m", "a", "p">>))])

\* decode_replay_attributes_events' result
AttributesEvent == PyDict([scopes |-> PyDict([source |-> PyInt(0)])])

\* decode_replay_initdata's result, handles the raw cache handles
InitDataEvent(handles) ==
    PyDict([m_syncLobbyState |->
        PyDict([m_gameDescription |->
            PyDict([m_cacheHandles |->
                PyList([i \in 1..Len(handles) |-> PyStr(handles[i])])])])])

\* the i-th event (from 0) a sequence decoder yields
SeqEvent(stream, i) ==
    PyDict([_event |-> PyStr(CASE stream = "gameevents" -> Str(<<"c", "m", "d">>)
                               [] stream = "messageevents" -> Str(<<"c", "h", "a", "t">>)
                               [] stream = "trackerevents" -> Str(<<"u", "n", "i", "t">>)),
            _bits |-> PyInt(IF stream = "messageevents" THEN 20 + 8 * i ELSE 12 + 8 * i),
            _gameloop |-> PyInt(i)])

\* a well-formed handle: purpose "s2ma", region "\0\0US", a two byte hash shown
\* as the first bytes of the content hash
GoodHandle == Str(<<"s", "2", "m", "a">>) \o <<0, 0>> \o Str(<<"U", "S">>)
              \o <<222, 173, 190, 239, 1, 2, 3, 4>>

\* the cache handle lists the init data of an archive may carry
HandleLists == {<<GoodHandle>>,
                <<GoodHandle, SubSeq(GoodHandle, 1, 8)>>,
                <<SubSeq(GoodHandle, 1, 6)>>}

(***************************************************************************)
(* The trace of what a run does.                                           *)
(***************************************************************************)
OpRead(stream) == [op |-> "read", stream |-> stream]
OpDecode(stream) == [op |-> "decode", stream |-> stream]
OpDeliver(stream, val) == [op |-> "deliver", stream |-> stream, val |-> val]
OpProcess(filter, stream, val) == [op |-> "process", filter |-> filter, stream |-> stream, val |-> val]
OpFinish(filter) == [op |-> "finish", filter |-> filter]
OpRaise(err, stream) == [op |-> "raise", err |-> err, stream |-> stream]
OpStderr(build) == [op |-> "stderr", build |-> build]

(***************************************************************************)
(* The filters.                                                            *)
(***************************************************************************)
RECURSIVE JsonValue(_)
\* the value a JSON text stands for: json.dumps writes a tuple as a list
JsonValue(value) ==
    IF value.t \in {"list", "tuple"}
    THEN PyList([i \in 1..Len(value.v) |-> JsonValue(value.v[i])])
    ELSE IF value.t = "dict"
    THEN PyDict([k \in DOMAIN value.v |-> JsonValue(value.v[k])])
    ELSE value

\* JSONOutputFilter.process: the JSON text of the event, a string
JSONOutputFilter_process(event) == [t |-> "json", v |-> JsonValue(event)]

\* type(value).__name__
TypeName(value) ==
    CASE value.t = "bool" -> Str(<<"b", "o", "o", "l">>)
      [] value.t = "int" -> Str(<<"i", "n", "t">>)
      [] value.t \in {"str", "json"} -> Str(<<"s", "t", "r">>)
      [] value.t = "tuple" -> Str(<<"t", "u", "p", "l", "e">>)
      [] value.t = "list" -> Str(<<"l", "i", "s", "t">>)
      [] value.t = "dict" -> Str(<<"d", "i", "c", "t">>)

RECURSIVE recurse_into_lists_only(_)
\* a transform that takes a dict for a leaf
recurse_into_lists_only(value) ==
    IF value.t = "list"
    THEN PyList([i \in 1..Len(value.v) |-> recurse_into_lists_only(value.v[i])])
    ELSE PyTuple(<<PyStr(TypeName(value)), value>>)

RECURSIVE recurse_into(_)
\* TypeDumpFilter.process's recurse_into
recurse_into(value) ==
    IF value.t = "list"
    THEN PyList([i \in 1..Len(value.v) |-> recurse_into(value.v[i])])
    ELSE IF value.t = "dict"
    THEN PyDict([k \in DOMAIN value.v |-> recurse_into(value.v[k])])
    ELSE PyTuple(<<PyStr(TypeName(value)), value>>)

TypeDumpFilter_process(event) == recurse_into(event)

\* whether StatCollectionFilter.process's test raises: "in" needs a container,
\* and a string that holds both names is then indexed by a string
StatRaises(event) ==
    \/ event.t \in {"bool", "int"}
    \/ /\ event.t = "json"
       /\ event.v.t = "dict"
       /\ {"_event", "_bits"} \subseteq DOMAIN event.v.v

\* '_event' in event and '_bits' in event, for an event the test accepts
StatCounts(event) ==
    /\ event.t = "dict"
    /\ {"_event", "_bits"} \subseteq DOMAIN event.v

\* an update that starts every event's kind from [0, 0] again
StatUpdateFresh(stats, event) ==
    IF StatCounts(event)
    THEN LET name == event.v["_event"].v
         IN  [k \in DOMAIN stats \cup {name} |->
                 IF k = name THEN <<1, event.v["_bits"].v>> ELSE stats[k]]
    ELSE stats

\* StatCollectionFilter.process's update of _event_stats
StatUpdate(stats, event) ==
    IF StatCounts(event)
    THEN LET name == event.v["_event"].v
             stat == IF name \in DOMAIN stats THEN stats[name] ELSE <<0, 0>>
         IN  [k \in DOMAIN stats \cup {name} |->
                 IF k = name THEN <<stat[1] + 1, stat[2] + event.v["_bits"].v>>
                 ELSE stats[k]]
    ELSE stats

\* the run's state a filter call reads and writes, with the event in flight
\* and the exception raised, if any
ChainState(event, stats, out, tr, err) ==
    [event |-> event, stats |-> stats, out |-> out, tr |-> tr, err |-> err]

\* f.process(event) for filter f
FilterProcess(f, stream, c) ==
    LET called == Append(c.tr, OpProcess(f, stream, c.event))
    IN  CASE f = "pretty" ->
               [c EXCEPT !.tr = called, !.out = Append(c.out, c.event)]
          [] f = "json" ->
               [c EXCEPT !.tr = called, !.event = JSONOutputFilter_process(c.event)]
          [] f = "types" ->
               [c EXCEPT !.tr = called, !.event = TypeDumpFilter_process(c.event)]
          [] f = "stats" ->
               IF StatRaises(c.event)
               THEN [c EXCEPT !.tr = Append(called, OpRaise("TypeError", stream)),
                              !.err = "TypeError"]
               ELSE [c EXCEPT !.tr = called, !.stats = StatUpdate(c.stats, c.event)]

RECURSIVE RunChain(_, _, _)
\* process_event's loop over the filters fs
RunChain(fs, stream, c) ==
    IF fs = <<>> \/ c.err # "none" THEN c
    ELSE RunChain(Tail(fs), stream, FilterProcess(Head(fs), stream, c))

\* process_event(event), called for an event of stream
process_event(fs, stream, event, stats, out, tr) ==
    RunChain(fs, stream,
             ChainState(event, stats, out, Append(tr, OpDeliver(stream, event)), "none"))

\* the filters list built by appending: each later filter behind the earlier
BuildFiltersAppend(a) ==
    LET f0 == <<>>
        f1 == IF ~a["quiet"] THEN f0 \o <<"pretty">> ELSE f0
        f2 == IF a["json"] THEN f1 \o <<"json">> ELSE f1
        f3 == IF a["types"] THEN f2 \o <<"types">> ELSE f2
        f4 == IF a["stats"] THEN f3 \o <<"stats">> ELSE f3
    IN  f4

\* the filters list with the JSON formatter inserted after the type dump
BuildFiltersJsonLast(a) ==
    LET f0 == <<>>
        f1 == IF ~a["quiet"] THEN <<"pretty">> \o f0 ELSE f0
        f2 == IF a["types"] THEN <<"types">> \o f1 ELSE f1
        f3 == IF a["json"] THEN <<"json">> \o f2 ELSE f2
        f4 == IF a["stats"] THEN <<"stats">> \o f3 ELSE f3
    IN  f4

\* the filters list main() builds by front insertion
BuildFilters(a) ==
    LET f0 == <<>>
        f1 == IF ~a["quiet"] THEN <<"pretty">> \o f0 ELSE f0
        f2 == IF a["json"] THEN <<"json">> \o f1 ELSE f1
        f3 == IF a["types"] THEN <<"types">> \o f2 ELSE f2
        f4 == IF a["stats"] THEN <<"stats">> \o f3 ELSE f3
    IN  f4

\* the kinds sorted by bits the other way round
SortedKindsDescending(stats) ==
    {s \in [1..Cardinality(DOMAIN stats) -> DOMAIN stats] :
        /\ \A i, j \in DOMAIN s : i # j => s[i] # s[j]
        /\ \A i, j \in DOMAIN s : i < j => stats[s[i]][2] >= stats[s[j]][2]}

\* the orders StatCollectionFilter.finish may print the kinds in: sorted by
\* bits, kinds of equal bits in the dictionary's order
SortedKinds(stats) ==
    {s \in [1..Cardinality(DOMAIN stats) -> DOMAIN stats] :
        /\ \A i, j \in DOMAIN s : i # j => s[i] # s[j]
        /\ \A i, j \in DOMAIN s : i < j => stats[s[i]][2] <= stats[s[j]][2]}

\* the lines StatCollectionFilter.finish prints for the kinds in this order
StatLines(stats, order) ==
    <<"Name, Count, Bits">>
    \o [i \in 1..Len(order) |->
          <<order[i], stats[order[i]][1], stats[order[i]][2] \div 8>>]

\* process_init_data: -1 stands for the ValueError of a handle
process_init_data(initdata) ==
    LET handles == initdata.v["m_syncLobbyState"].v["m_gameDescription"].v["m_cacheHandles"].v
        uris == [i \in 1..Len(handles) |-> cache_handle_uri(handles[i].v)]
    IN  IF \E i \in 1..Len(uris) : uris[i].err # "none"
        THEN Raised("ValueError")
        ELSE Returned(PyDict([m_syncLobbyState |->
                 PyDict([m_gameDescription |->
                     PyDict([m_cacheHandles |->
                         PyList([i \in 1..Len(uris) |-> PyStr(uris[i].val)])])])]))


(***************************************************************************)
(* main().                                                                 *)
(***************************************************************************)
NoGen == [stream |-> "none", next |-> 0]

\* a main() that takes every stream for requested
RequestedAlways(stream) == TRUE

Requested(stream) == args["all"] \/ args[stream]

\* the blocks with message events ahead of game events
NextPcMessageFirst(stream) ==
    CASE stream = "details" -> "initdata"
      [] stream = "initdata" -> "messageevents"
      [] stream = "messageevents" -> "gameevents"
      [] stream = "gameevents" -> "trackerevents"
      [] stream = "trackerevents" -> "attributeevents"
      [] stream = "attributeevents" -> "finish"

\* the blocks with a way back from the attribute events to the details
NextPcAgain(stream) ==
    CASE stream = "details" -> "initdata"
      [] stream = "initdata" -> "gameevents"
      [] stream = "gameevents" -> "messageevents"
      [] stream = "messageevents" -> "trackerevents"
      [] stream = "trackerevents" -> "attributeevents"
      [] stream = "attributeevents" -> "details"

NextPc(stream) ==
    CASE stream = "details" -> "initdata"
      [] stream = "initdata" -> "gameevents"
      [] stream = "gameevents" -> "messageevents"
      [] stream = "messageevents" -> "trackerevents"
      [] stream = "trackerevents" -> "attributeevents"
      [] stream = "attributeevents" -> "finish"

\* an exception no handler catches: a traceback, exit status 1
Crash(tr, err, stream) ==
    /\ trace' = Append(tr, OpRaise(err, stream))
    /\ pc' = "crashed"
    /\ exitcode' = 1

\* a main() that catches what a filter raises and goes on to the next event
AfterChainSkipping(c, next) ==
    /\ event_stats' = c.stats
    /\ stdout' = c.out
    /\ trace' = c.tr
    /\ pc' = next
    /\ exitcode' = exitcode

\* the state after process_event returned or raised: c is the chain's state
AfterChain(c, next) ==
    /\ event_stats' = c.stats
    /\ stdout' = c.out
    /\ trace' = c.tr
    /\ IF c.err = "none"
       THEN pc' = next /\ exitcode' = exitcode
       ELSE pc' = "crashed" /\ exitcode' = 1

InitMain ==
    /\ args \in ParseArgs
    /\ pc = "start"
    /\ filters = <<>>
    /\ header = PyDict(<<>>)
    /\ protocol = 0
    /\ gen = NoGen
    /\ emitted = 0
    /\ trace = <<>>
    /\ event_stats = <<>>
    /\ stdout = <<>>
    /\ exitcode = -1

\* no function under test
NoUnit ==
    /\ handle = <<>>
    /\ uri = Raised("unset")
    /\ fcc_hex = <<>>
    /\ fcc = Raised("unset")
    /\ td_event = PyList(<<>>)
    /\ td_result = Raised("unset")

Init ==
    /\ InitMain
    /\ NoUnit

\* lines 172-183: the filters list
MakeFilters ==
    /\ pc = "start"
    /\ filters' = BuildFilters(args)
    /\ pc' = "readheader"
    /\ UNCHANGED <<args, header, protocol, gen, emitted, trace, event_stats,
                   stdout, exitcode, unitVars>>

\* lines 190-191: the header is decoded with protocol15405, whatever the build
DecodeHeader ==
    /\ pc = "readheader"
    /\ \/ \E build \in Builds :
             /\ header' = HeaderEvent(build)
             /\ trace' = Append(trace, OpDecode("header"))
             /\ pc' = "header"
             /\ exitcode' = exitcode
       \/ /\ Crash(Append(trace, OpDecode("header")), "MalformedStream", "header")
          /\ header' = header
    /\ UNCHANGED <<args, filters, protocol, gen, emitted, event_stats, stdout,
                   unitVars>>

\* what line 193 hands to process_event
HeaderArgument == PyBool(args["header"])

\* lines 192-193
DeliverHeader ==
    /\ pc = "header"
    /\ IF args["header"]
       THEN AfterChain(process_event(filters, "header", HeaderArgument,
                                     event_stats, stdout, trace), "resolve")
       ELSE /\ pc' = "resolve"
            /\ UNCHANGED <<event_stats, stdout, trace, exitcode>>
    /\ UNCHANGED <<args, filters, header, protocol, gen, emitted, unitVars>>

\* a resolution that falls back to protocol15405 for an unknown build
ResolveFallback ==
    /\ pc = "resolve"
    /\ LET build == header.v["m_version"].v["m_baseBuild"].v
       IN  protocol' = IF build \in RegisteredBuilds THEN build ELSE 15405
    /\ pc' = "details"
    /\ UNCHANGED <<args, filters, header, gen, emitted, trace, event_stats,
                   stdout, exitcode, unitVars>>

\* lines 196-201: __import__ finds a module for the registered builds only
Resolve ==
    /\ pc = "resolve"
    /\ LET baseBuild == header.v["m_version"].v["m_baseBuild"].v
       IN  IF baseBuild \in RegisteredBuilds
           THEN /\ protocol' = baseBuild
                /\ pc' = "details"
                /\ UNCHANGED <<trace, exitcode>>
           ELSE /\ trace' = Append(trace, OpStderr(baseBuild))
                /\ exitcode' = 1
                /\ pc' = "unsupported"
                /\ protocol' = protocol
    /\ UNCHANGED <<args, filters, header, gen, emitted, event_stats, stdout,
                   unitVars>>

\* the trace once the stream's member is read and its decoder called
ReadAndDecode(stream) == trace \o <<OpRead(stream), OpDecode(stream)>>

\* a block that decodes one event and delivers it: lines 204-207, 233-236
SingleEvent(stream, event) ==
    /\ pc = stream
    /\ IF Requested(stream)
       THEN \/ AfterChain(process_event(filters, stream, event, event_stats,
                                        stdout, ReadAndDecode(stream)),
                          NextPc(stream))
            \/ /\ Crash(ReadAndDecode(stream), "MalformedStream", stream)
               /\ UNCHANGED <<event_stats, stdout>>
       ELSE /\ pc' = NextPc(stream)
            /\ UNCHANGED <<event_stats, stdout, trace, exitcode>>
    /\ UNCHANGED <<args, filters, header, protocol, gen, emitted, unitVars>>

\* lines 204-207
Details == SingleEvent("details", DetailsEvent)

\* lines 210-214
InitData ==
    /\ pc = "initdata"
    /\ IF Requested("initdata")
       THEN \/ \E handles \in HandleLists :
                 LET initdata == process_init_data(InitDataEvent(handles))
                 IN  IF initdata.err = "none"
                     THEN AfterChain(process_event(filters, "initdata", initdata.val,
                                                   event_stats, stdout,
                                                   ReadAndDecode("initdata")),
                                     NextPc("initdata"))
                     ELSE /\ Crash(ReadAndDecode("initdata"), initdata.err, "initdata")
                          /\ UNCHANGED <<event_stats, stdout>>
            \/ /\ Crash(ReadAndDecode("initdata"), "MalformedStream", "initdata")
               /\ UNCHANGED <<event_stats, stdout>>
       ELSE /\ pc' = NextPc("initdata")
            /\ UNCHANGED <<event_stats, stdout, trace, exitcode>>
    /\ UNCHANGED <<args, filters, header, protocol, gen, emitted, unitVars>>

\* whether the module has the stream's decoder: hasattr(protocol, ...)
HasDecoder(stream) == stream # "trackerevents" \/ protocol \in TrackerBuilds

\* no test for the decoder at all
ChecksDecoderNever(stream) == FALSE

\* whether main() tests for the decoder before it reads the member
ChecksDecoder(stream) == stream = "trackerevents"

\* a block that maps process_event over a decoder's generator: the member is
\* read and the generator made; nothing is decoded until map() asks
StartSequence(stream) ==
    /\ pc = stream
    /\ gen = NoGen
    /\ IF Requested(stream) /\ (ChecksDecoder(stream) => HasDecoder(stream))
       THEN IF HasDecoder(stream)
            THEN /\ trace' = ReadAndDecode(stream)
                 /\ gen' = [stream |-> stream, next |-> 0]
                 /\ UNCHANGED <<pc, exitcode>>
            ELSE /\ Crash(Append(trace, OpRead(stream)), "AttributeError", stream)
                 /\ gen' = gen
       ELSE /\ pc' = NextPc(stream)
            /\ UNCHANGED <<gen, trace, exitcode>>
    /\ UNCHANGED <<args, filters, header, protocol, emitted, event_stats, stdout,
                   unitVars>>

\* lines 217-219
GameEvents == StartSequence("gameevents")

\* lines 222-224
MessageEvents == StartSequence("messageevents")

\* lines 227-230
TrackerEvents == StartSequence("trackerevents")

\* one turn of map(process_event, generator): the generator yields its next
\* event, which goes through the chain, or ends, or finds the stream malformed
MapStep ==
    /\ gen # NoGen
    /\ pc = gen.stream
    /\ \/ /\ emitted < MaxEvents
          /\ AfterChain(process_event(filters, gen.stream, SeqEvent(gen.stream, gen.next),
                                      event_stats, stdout, trace), pc)
          /\ gen' = [gen EXCEPT !.next = gen.next + 1]
          /\ emitted' = emitted + 1
       \/ /\ gen' = NoGen
          /\ pc' = NextPc(gen.stream)
          /\ UNCHANGED <<emitted, event_stats, stdout, trace, exitcode>>
       \/ /\ Crash(trace, "MalformedStream", gen.stream)
          /\ UNCHANGED <<gen, emitted, event_stats, stdout>>
    /\ UNCHANGED <<args, filters, header, protocol, unitVars>>

\* lines 233-236
AttributeEvents == SingleEvent("attributeevents", AttributesEvent)

RECURSIVE FinishAllReversed(_, _, _)
\* the finish() calls made from the last filter to the first
FinishAllReversed(fs, order, c) ==
    IF fs = <<>> THEN c
    ELSE FinishAllReversed(SubSeq(fs, 1, Len(fs) - 1), order,
                           [out |-> IF fs[Len(fs)] = "stats"
                                    THEN c.out \o StatLines(event_stats, order)
                                    ELSE c.out,
                            tr |-> Append(c.tr, OpFinish(fs[Len(fs)]))])

RECURSIVE FinishAll(_, _, _)
\* lines 238-239 from filter fs[1] on: [out, tr] after the finish() calls, the
\* stats collector printing its kinds in order
FinishAll(fs, order, c) ==
    IF fs = <<>> THEN c
    ELSE FinishAll(Tail(fs), order,
                   [out |-> IF Head(fs) = "stats"
                            THEN c.out \o StatLines(event_stats, order)
                            ELSE c.out,
                    tr |-> Append(c.tr, OpFinish(Head(fs)))])

\* lines 238-239, and main() returns
Finish ==
    /\ pc = "finish"
    /\ \E order \in SortedKinds(event_stats) :
          LET c == FinishAll(filters, order, [out |-> stdout, tr |-> trace])
          IN  /\ stdout' = c.out
              /\ trace' = c.tr
    /\ pc' = "done"
    /\ exitcode' = 0
    /\ UNCHANGED <<args, filters, header, protocol, gen, emitted, event_stats,
                   unitVars>>

Next ==
    \/ MakeFilters
    \/ DecodeHeader
    \/ DeliverHeader
    \/ Resolve
    \/ Details
    \/ InitData
    \/ GameEvents
    \/ MessageEvents
    \/ TrackerEvents
    \/ MapStep
    \/ AttributeEvents
    \/ Finish

Spec == Init /\ [][Next]_vars

(***************************************************************************)
(* The cache handle translator on its own: cache_handle_uri applied to one *)
(* handle.                                                                 *)
(***************************************************************************)
\* the least length of a cache handle: purpose, region and content hash
HandleMinLen == 16

\* the first n bytes of base, repeated as often as n needs
Pad(base, n) == [i \in 1..n |-> base[((i - 1) % Len(base)) + 1]]

BaseHandles ==
    {GoodHandle,
     <<0, 0, 0, 0, 0, 0, 0, 0, 0, 0, 0>>,
     Str(<<"S", "2", "m", "v">>) \o Str(<<"E", "U">>) \o <<0, 0, 255, 10, 171>>,
     <<0, 66, 0, 0, 75, 0, 82, 0, 18, 52, 86, 120, 154>>}

Handles ==
    {Pad(base, n) : base \in BaseHandles, n \in 0..(HandleMinLen + MaxExtraBytes)}

InitHandle ==
    /\ args = [a \in ArgNames |-> FALSE]
    /\ pc = "translator"
    /\ filters = <<>>
    /\ header = PyDict(<<>>)
    /\ protocol = 0
    /\ gen = NoGen
    /\ emitted = 0
    /\ trace = <<>>
    /\ event_stats = <<>>
    /\ stdout = <<>>
    /\ exitcode = -1
    /\ handle \in Handles
    /\ uri = Raised("unset")
    /\ fcc_hex = <<>>
    /\ fcc = Raised("unset")
    /\ td_event = PyList(<<>>)
    /\ td_result = Raised("unset")

\* lines 113-129
Translate ==
    /\ uri = Raised("unset")
    /\ uri' = cache_handle_uri(handle)
    /\ UNCHANGED <<mainVars, handle, fcc_hex, fcc, td_event, td_result>>

NextHandle == Translate

SpecHandle == InitHandle /\ [][NextHandle]_vars

\* C10: whenever cache_handle_uri has been applied to a handle shorter than
\* the layout's 16 bytes, it raised an error and returned no URI.
C10_ShortHandleFails ==
    (uri # Raised("unset") /\ Len(handle) < HandleMinLen) => uri.err # "none"

\* a handle of 0..7 bytes, on which the translator does raise
C10_ShortHandleRaises ==
    uri # Raised("unset") /\ Len(handle) < HandleMinLen /\ uri.err = "ValueError"

\* what the code does: a handle of fewer than 8 bytes raises, and one of 8
\* or more bytes yields a URI whose hash is the hex of the bytes from 8 on
cache_handle_uri_short ==
    uri # Raised("unset") =>
        /\ Len(handle) < 8 <=> uri.err = "ValueError"
        /\ Len(handle) >= 8 <=> uri.err = "none"

(***************************************************************************)
(* convert_fourcc on its own, applied to one text of eight hexadecimal     *)
(* digits.                                                                 *)
(***************************************************************************)
\* the digits the texts are written with, both cases of one letter among them
HexChars == {Chr("0"), Chr("2"), Chr("4"), Chr("b"), Chr("B")}

\* the texts of four bytes, two digits each
FourCCTexts == [1..8 -> HexChars]

InitFourCC ==
    /\ args = [a \in ArgNames |-> FALSE]
    /\ pc = "fourcc"
    /\ filters = <<>>
    /\ header = PyDict(<<>>)
    /\ protocol = 0
    /\ gen = NoGen
    /\ emitted = 0
    /\ trace = <<>>
    /\ event_stats = <<>>
    /\ stdout = <<>>
    /\ exitcode = -1
    /\ handle = <<>>
    /\ uri = Raised("unset")
    /\ fcc_hex \in FourCCTexts
    /\ fcc = Raised("unset")
    /\ td_event = PyList(<<>>)
    /\ td_result = Raised("unset")

\* lines 100-110
Convert ==
    /\ pc = "fourcc"
    /\ pc' = "converted"
    /\ fcc' = convert_fourcc(fcc_hex)
    /\ UNCHANGED <<args, filters, header, protocol, gen, emitted, trace,
                   event_stats, stdout, exitcode, handle, uri, fcc_hex,
                   td_event, td_result>>

NextFourCC == Convert

SpecFourCC == InitFourCC /\ [][NextFourCC]_vars

\* what a hexadecimal digit stands for
HexValue(c) ==
    CASE c = 48 -> 0 [] c = 50 -> 2 [] c = 52 -> 4 [] c = 98 -> 11 [] c = 66 -> 11

\* the four bytes a text of eight digits denotes, left to right
BytesOf(text) == [k \in 1..4 |-> 16 * HexValue(text[2 * k - 1]) + HexValue(text[2 * k])]

IsNonZero(n) == n # 0

\* C13: convert_fourcc returns for every text of eight hexadecimal digits, and
\* what it returns is the subsequence of the non-zero bytes among the four, in
\* order: as many characters as there are non-zero bytes, and "B" for
\* "00420000".
C13_ZeroBytesElided ==
    pc = "converted" =>
        /\ fcc.err = "none"
        /\ fcc.val = SelectSeq(BytesOf(fcc_hex), IsNonZero)
        /\ Len(fcc.val) = Cardinality({k \in 1..4 : BytesOf(fcc_hex)[k] # 0})
        /\ fcc_hex = Str(<<"0", "0", "4", "2", "0", "0", "0", "0">>)
               => fcc.val = Str(<<"B">>)

\* a text with a zero byte between two others, converted to three characters
C13_Witness ==
    /\ pc = "converted"
    /\ fcc_hex = Str(<<"4", "2", "0", "0", "4", "b", "0", "2">>)
    /\ fcc = Returned(<<66, 75, 2>>)

(***************************************************************************)
(* The URI of a cache handle of the full layout.                           *)
(***************************************************************************)
\* the text of a four byte code: its non-zero bytes
FourCCOf(bytes) == SelectSeq(bytes, IsNonZero)

\* http://{host}.depot.battle.net:1119/{hash}.{ext}, the three lower-cased
DepotURI(host, hash, ext) ==
    Str(<<"h", "t", "t", "p", ":", "/", "/">>) \o Lower(host)
        \o Str(<<".", "d", "e", "p", "o", "t", ".", "b", "a", "t", "t", "l", "e",
                 ".", "n", "e", "t", ":", "1", "1", "1", "9", "/">>)
        \o Lower(hash) \o Str(<<".">>) \o Lower(ext)

\* C14, as stated: the URI of a handle of at least 16 bytes has the code of
\* bytes 0..3 for its host and the code of bytes 4..7 for its extension, the
\* hex of the bytes from 8 on between them.
C14_FirstCodeIsHost ==
    (pc = "translator" /\ uri # Raised("unset") /\ Len(handle) >= HandleMinLen) =>
        uri = Returned(DepotURI(FourCCOf(SubSeq(handle, 1, 4)),
                                b2a_hex(SubSeq(handle, 9, Len(handle))),
                                FourCCOf(SubSeq(handle, 5, 8))))

\* C14, amended: the URI of a handle of at least 16 bytes has the code of
\* bytes 4..7, the region, for its host and the code of bytes 0..3, the
\* purpose, for its extension, the hex of the bytes from 8 on between them;
\* purpose "s2ma" and region "US" give http://us. ... .s2ma.
C14_SecondCodeIsHost ==
    (pc = "translator" /\ uri # Raised("unset") /\ Len(handle) >= HandleMinLen) =>
        /\ uri = Returned(DepotURI(FourCCOf(SubSeq(handle, 5, 8)),
                                   b2a_hex(SubSeq(handle, 9, Len(handle))),
                                   FourCCOf(SubSeq(handle, 1, 4))))
        /\ SubSeq(handle, 1, 8) = SubSeq(GoodHandle, 1, 8) =>
               /\ SubSeq(uri.val, 1, 10) = Str(<<"h", "t", "t", "p", ":", "/", "/", "u", "s", ".">>)
               /\ SubSeq(uri.val, Len(uri.val) - 4, Len(uri.val)) = Str(<<".", "s", "2", "m", "a">>)

\* the handle of purpose s2ma, region US and hash deadbeef01020304 translated
C14_Witness ==
    /\ handle = GoodHandle
    /\ uri = Returned(Str(<<"h", "t", "t", "p", ":", "/", "/", "u", "s", ".", "d", "e",
                            "p", "o", "t", ".", "b", "a", "t", "t", "l", "e", ".", "n",
                            "e", "t", ":", "1", "1", "1", "9", "/", "d", "e", "a", "d",
                            "b", "e", "e", "f", "0", "1", "0", "2", "0", "3", "0", "4",
                            ".", "s", "2", "m", "a">>))

(***************************************************************************)
(* TypeDumpFilter.process on its own, applied to one event of scalars,     *)
(* lists and dicts nested two deep.                                        *)
(***************************************************************************)
\* the most elements a list of the event has
MaxListLen == 2

Leaves == {PyInt(1), PyStr(Str(<<"a">>))}

DictKeys == {"m_a", "m_b"}

\* the lists and the dicts whose elements and values are drawn from S
Containers(S) ==
    {PyList(l) : l \in UNION {[1..n -> S] : n \in 0..MaxListLen}}
        \cup {PyDict(d) : d \in UNION {[K -> S] : K \in SUBSET DictKeys}}

Flat == Leaves \cup Containers(Leaves)

Nested == Leaves \cup Containers(Flat)

InitTypeDump ==
    /\ args = [a \in ArgNames |-> a = "types"]
    /\ pc = "typedump"
    /\ filters = <<"types">>
    /\ header = PyDict(<<>>)
    /\ protocol = 0
    /\ gen = NoGen
    /\ emitted = 0
    /\ trace = <<>>
    /\ event_stats = <<>>
    /\ stdout = <<>>
    /\ exitcode = -1
    /\ handle = <<>>
    /\ uri = Raised("unset")
    /\ fcc_hex = <<>>
    /\ fcc = Raised("unset")
    /\ td_event \in Nested
    /\ td_result = Raised("unset")

\* lines 62-77: the event is read, the result built of new lists and dicts
Dump ==
    /\ pc = "typedump"
    /\ pc' = "dumped"
    /\ td_result' = Returned(TypeDumpFilter_process(td_event))
    /\ UNCHANGED <<args, filters, header, protocol, gen, emitted, trace,
                   event_stats, stdout, exitcode, handle, uri, fcc_hex, fcc,
                   td_event>>

NextTypeDump == Dump

SpecTypeDump == InitTypeDump /\ [][NextTypeDump]_vars

RECURSIVE Isomorphic(_, _)
\* whether b has the shape of a, with a pair of type name and value for
\* each leaf of a
Isomorphic(a, b) ==
    IF a.t = "list"
    THEN /\ b.t = "list"
         /\ Len(b.v) = Len(a.v)
         /\ \A i \in 1..Len(a.v) : Isomorphic(a.v[i], b.v[i])
    ELSE IF a.t = "dict"
    THEN /\ b.t = "dict"
         /\ DOMAIN b.v = DOMAIN a.v
         /\ \A k \in DOMAIN a.v : Isomorphic(a.v[k], b.v[k])
    ELSE /\ b.t = "tuple"
         /\ Len(b.v) = 2
         /\ b.v[1] = PyStr(IF a.t = "int" THEN Str(<<"i", "n", "t">>)
                                         ELSE Str(<<"s", "t", "r">>))
         /\ b.v[2] = a

\* C16: for an event of scalars, lists and dicts the type dump returns a tree
\* of the same shape: a list for a list, as long and transformed element by
\* element, a dict for a dict, of the same keys, and the pair (type name, v)
\* for a leaf v; the event is as it was.
C16_TypeDumpIsomorphic ==
    pc = "dumped" =>
        /\ td_result.err = "none"
        /\ Isomorphic(td_event, td_result.val)

\* the event is never written to
C16_EventKept == [][td_event' = td_event]_vars

\* a list of a dict and a string, dumped
C16_Witness ==
    /\ td_event = PyList(<<PyDict([m_a |-> PyInt(1)]), PyStr(Str(<<"a">>))>>)
    /\ td_result = Returned(PyList(<<
           PyDict([m_a |-> PyTuple(<<PyStr(Str(<<"i", "n", "t">>)), PyInt(1)>>)]),
           PyTuple(<<PyStr(Str(<<"s", "t", "r">>)), PyStr(Str(<<"a">>))>>)>>))

(***************************************************************************)
(* What the trace of a run shows.                                          *)
(***************************************************************************)
StreamOps == {"read", "decode", "deliver", "process"}

\* the place of a stream in the canonical order, the header before them all
StreamIndex(stream) ==
    CASE stream = "header" -> 0
      [] stream = "details" -> 1
      [] stream = "initdata" -> 2
      [] stream = "gameevents" -> 3
      [] stream = "messageevents" -> 4
      [] stream = "trackerevents" -> 5
      [] stream = "attributeevents" -> 6

\* the trace entries for op on stream
Entries(op, stream) ==
    {i \in DOMAIN trace : trace[i].op = op /\ trace[i].stream = stream}

\* the entries that touch a stream member: its read, decode, delivery, filtering
StreamEntries == {i \in DOMAIN trace : trace[i].op \in StreamOps}

\* the calls of one filter's process()
Calls(f) == {i \in DOMAIN trace : trace[i].op = "process" /\ trace[i].filter = f}

IsFinish(e) == e.op = "finish"

IsStreamOp(e) == e.op \in StreamOps

\* the filters finish() was called on, in call order
Finished ==
    LET fin == SelectSeq(trace, IsFinish)
    IN  [i \in 1..Len(fin) |-> fin[i].filter]

HeaderDecoded == "m_version" \in DOMAIN header.v

baseBuild == header.v["m_version"].v["m_baseBuild"].v

Terminated == pc \in {"done", "unsupported", "crashed"}

StreamNames == {Streams[i] : i \in DOMAIN Streams}

IndividualFlags == StreamNames \cup {"header"}

(***************************************************************************)
(* The claims.                                                             *)
(***************************************************************************)

\* C1: when the header's build has no protocol module, no stream member is
\* ever read or decoded, no stream event reaches a filter, the run does not
\* stop before the resolution, and past it the run has ended with exit
\* status 1 (never status 0).
C1_UnsupportedBuildExits ==
    (HeaderDecoded /\ baseBuild \notin RegisteredBuilds) =>
        /\ \A i \in StreamEntries : trace[i].stream = "header"
        /\ protocol = 0
        /\ pc \in {"header", "resolve", "unsupported", "crashed"}
        /\ pc \in {"unsupported", "crashed"} => exitcode = 1
        /\ pc \in {"header", "resolve"} => (exitcode = -1 /\ ENABLED Next)

\* an unsupported build met by a run that asked for every stream
C1_Witness ==
    /\ pc = "unsupported"
    /\ exitcode = 1
    /\ args["all"]
    /\ baseBuild \notin RegisteredBuilds
    /\ trace[Len(trace)] = OpStderr(baseBuild)

\* C2: with --header, the chain is handed the decoded header event, once,
\* before any stream event.
C2_HeaderEventDelivered ==
    (args["header"] /\ pc \notin {"start", "readheader", "header"} /\ HeaderDecoded) =>
        /\ Cardinality(Entries("deliver", "header")) = 1
        /\ \A i \in Entries("deliver", "header") :
              /\ trace[i].val.t = "dict"
              /\ trace[i].val = header
              /\ \A j \in StreamEntries : trace[j].stream # "header" => i < j

\* what the code does with --header: the chain is handed the flag's value
C2_HeaderFlagDelivered ==
    \A i \in Entries("deliver", "header") : trace[i].val = PyBool(TRUE)

\* C3: with --all and no individual stream flag, a completed run has
\* delivered the header, details, init data and attributes events, and has
\* read every event sequence the module can decode.
C3_AllIncludesEveryStream ==
    (pc = "done" /\ args["all"] /\ \A f \in IndividualFlags : ~args[f]) =>
        /\ Entries("deliver", "header") # {}
        /\ \A s \in {"details", "initdata", "attributeevents"} :
              Entries("deliver", s) # {}
        /\ \A s \in SequenceStreams :
              HasDecoder(s) => Entries("decode", s) # {}

\* what the code does with --all alone: every stream but the header
C3_AllButHeader ==
    (pc = "done" /\ args["all"] /\ \A f \in IndividualFlags : ~args[f]) =>
        /\ Entries("deliver", "header") = {}
        /\ \A s \in {"details", "initdata", "attributeevents"} :
              Entries("deliver", s) # {}
        /\ \A s \in SequenceStreams :
              HasDecoder(s) => Entries("decode", s) # {}

\* C4: with --json and --stats, every value handed to the chain goes to the
\* stats collector first and as it was handed over, never as a JSON string,
\* and the collector is called for nothing else.
C4_StatsSeesRawEvent ==
    (args["json"] /\ args["stats"]) =>
        /\ \A i \in DOMAIN trace :
              trace[i].op = "deliver" =>
                  /\ i < Len(trace)
                  /\ trace[i + 1] = OpProcess("stats", trace[i].stream, trace[i].val)
        /\ \A i \in Calls("stats") :
              /\ trace[i].val.t # "json"
              /\ i > 1
              /\ trace[i - 1].op = "deliver"

\* the stats collector and then the JSON formatter called on a decoded event
C4_Witness ==
    /\ args["json"] /\ args["stats"] /\ args["types"]
    /\ \E i \in Calls("stats"), j \in Calls("json") :
          i < j /\ trace[i].stream = "gameevents" /\ trace[j].stream = "gameevents"
                /\ trace[i].val = SeqEvent("gameevents", 0)

Enabled(f) ==
    CASE f = "stats" -> args["stats"]
      [] f = "types" -> args["types"]
      [] f = "json" -> args["json"]
      [] f = "pretty" -> ~args["quiet"]

\* C5: the chain is the part of [stats, types, json, pretty] the flags
\* select; the type dump never gets a JSON string, and with JSON the pretty
\* printer gets exactly the JSON formatter's output.
C5_ChainOrder ==
    pc # "start" =>
        /\ filters = SelectSeq(<<"stats", "types", "json", "pretty">>, Enabled)
        /\ \A i \in Calls("types") : trace[i].val.t # "json"
        /\ args["json"] =>
              \A i \in Calls("pretty") :
                  /\ trace[i - 1].op = "process"
                  /\ trace[i - 1].filter = "json"
                  /\ trace[i].val = JSONOutputFilter_process(trace[i - 1].val)

\* type dump, JSON and pretty printer called in turn on one event
C5_Witness ==
    /\ args["json"] /\ args["types"] /\ ~args["quiet"]
    /\ \E i \in Calls("types") :
          /\ i + 2 <= Len(trace)
          /\ trace[i].val = DetailsEvent
          /\ trace[i + 1].op = "process" /\ trace[i + 1].filter = "json"
          /\ trace[i + 1].val = TypeDumpFilter_process(DetailsEvent)
          /\ trace[i + 2].op = "process" /\ trace[i + 2].filter = "pretty"

\* C6 as claimed, "in every run", for the runs main() itself ends (by its
\* return or by sys.exit): the run has called finish() once on every filter,
\* in chain order.
C6_EveryRunFinishes == pc \in {"done", "unsupported"} => Finished = filters

\* C6 as amended: a run that completes calls finish() once on every filter
\* in chain order, a run that has not completed (running, or aborted) has
\* called no finish(), and nothing but finish() calls follows a finish().
C6_FinishOnceAtEnd ==
    /\ pc = "done" => Finished = filters
    /\ pc # "done" => Finished = <<>>
    /\ \A i \in 1..(Len(trace) - 1) :
          trace[i].op = "finish" => trace[i + 1].op = "finish"

\* a completed run of four filters that delivered events
C6_Witness ==
    /\ pc = "done"
    /\ Len(filters) = 4
    /\ Finished = <<"stats", "types", "json", "pretty">>
    /\ Entries("deliver", "messageevents") # {}

\* C7: the trace touches the streams in the canonical order only (the
\* entries that touch a stream never step back to an earlier stream): whatever
\* is done for a stream (its read, decode, deliveries, filter calls) comes
\* before the member of any later stream is read, each member is read at
\* most once, and a stream's events are delivered after its read.
C7_CanonicalOrder ==
    /\ LET touched == SelectSeq(trace, IsStreamOp)
       IN  \A i \in 1..(Len(touched) - 1) :
               StreamIndex(touched[i].stream) <= StreamIndex(touched[i + 1].stream)
    /\ \A s \in StreamNames :
          /\ Cardinality(Entries("read", s)) <= 1
          /\ \A j \in Entries("deliver", s) : \E i \in Entries("read", s) : i < j

\* game events delivered, then message events, then the attributes read
C7_Witness ==
    \E i \in Entries("deliver", "gameevents"), j \in Entries("deliver", "messageevents"),
       k \in Entries("read", "attributeevents") : i < j /\ j < k

\* C8: with a module that has no tracker decoder, the tracker member is
\* never read or decoded and nothing is raised for it; a completed run has
\* read every other requested stream.
C8_TrackerSkipped ==
    (protocol # 0 /\ protocol \notin TrackerBuilds) =>
        /\ \A i \in DOMAIN trace :
              trace[i].op \in StreamOps \cup {"raise"} => trace[i].stream # "trackerevents"
        /\ pc = "done" =>
              \A s \in StreamNames \ {"trackerevents"} :
                  Requested(s) => Entries("read", s) # {}

\* tracker events requested of a module without them, and the run completed
\* with the attributes delivered
C8_Witness ==
    /\ pc = "done"
    /\ exitcode = 0
    /\ args["trackerevents"]
    /\ protocol # 0 /\ protocol \notin TrackerBuilds
    /\ Entries("deliver", "attributeevents") # {}

\* C9: when a stream turns out malformed, no event of that stream has been
\* delivered to the chain, and none of a later stream.
C9_NoPartialOutput ==
    (pc = "crashed" /\ trace[Len(trace)].op = "raise"
                    /\ trace[Len(trace)].err = "MalformedStream") =>
        \A i \in DOMAIN trace :
            trace[i].op = "deliver" =>
                StreamIndex(trace[i].stream) < StreamIndex(trace[Len(trace)].stream)

\* what the code does: the run is aborted, and nothing of a later stream is
\* delivered
C9_LaterStreamsAborted ==
    (pc = "crashed" /\ trace[Len(trace)].op = "raise"
                    /\ trace[Len(trace)].err = "MalformedStream") =>
        /\ exitcode = 1
        /\ \A i \in DOMAIN trace :
              trace[i].op = "deliver" =>
                  StreamIndex(trace[i].stream) <= StreamIndex(trace[Len(trace)].stream)

(***************************************************************************)
(* The stats collector on its own: process() called on a sequence of       *)
(* events, then finish().                                                  *)
(***************************************************************************)
\* the stats collector processes at most this many events
MaxStatEvents == 3

kindA == Str(<<"a">>)
kindB == Str(<<"b">>)

\* an event of a kind with a bit length
KindEvent(kind, bits) == PyDict([_event |-> PyStr(kind), _bits |-> PyInt(bits)])

\* the events the collector is given: with both fields, and lacking one or both
StatEvents ==
    {KindEvent(kind, bits) : kind \in {kindA, kindB}, bits \in {8, 12, 16}}
    \cup {PyDict([_event |-> PyStr(kindA)]),
          PyDict([_bits |-> PyInt(8)]),
          PyDict([m_title |-> PyStr(kindB)])}

OpReturn(filter, val) == [op |-> "return", filter |-> filter, val |-> val]

InitStats ==
    /\ args = [a \in ArgNames |-> a \in {"stats", "quiet"}]
    /\ pc = "collect"
    /\ filters = <<"stats">>
    /\ header = PyDict(<<>>)
    /\ protocol = 0
    /\ gen = NoGen
    /\ emitted = 0
    /\ trace = <<>>
    /\ event_stats = <<>>
    /\ stdout = <<>>
    /\ exitcode = -1
    /\ NoUnit

\* lines 85-92: process() called on one more event
Collect ==
    /\ pc = "collect"
    /\ emitted < MaxStatEvents
    /\ \E event \in StatEvents :
          LET c == FilterProcess("stats", "gameevents",
                                 ChainState(event, event_stats, stdout, trace, "none"))
          IN  /\ c.err = "none"
              /\ event_stats' = c.stats
              /\ stdout' = c.out
              /\ trace' = Append(c.tr, OpReturn("stats", c.event))
    /\ emitted' = emitted + 1
    /\ UNCHANGED <<args, pc, filters, header, protocol, gen, exitcode, unitVars>>

\* the last event has been processed
EndOfEvents ==
    /\ pc = "collect"
    /\ pc' = "finish"
    /\ UNCHANGED <<args, filters, header, protocol, gen, emitted, trace,
                   event_stats, stdout, exitcode, unitVars>>

NextStats ==
    \/ Collect
    \/ EndOfEvents
    \/ Finish

SpecStats == InitStats /\ [][NextStats]_vars

\* the events process() was called on, in order
Processed ==
    LET IsCall(e) == e.op = "process"
        calls == SelectSeq(trace, IsCall)
    IN  [i \in 1..Len(calls) |-> calls[i].val]

\* whether an event carries a kind name and a bit length
HasBoth(event) == {"_event", "_bits"} \subseteq DOMAIN event.v

RECURSIVE CountOf(_, _)
\* how many of the events carry both fields and the kind name
CountOf(events, kind) ==
    IF events = <<>> THEN 0
    ELSE CountOf(Tail(events), kind)
         + (IF HasBoth(Head(events)) /\ Head(events).v["_event"].v = kind THEN 1 ELSE 0)

RECURSIVE BitsOf(_, _)
\* the sum of the bit lengths of the events that carry both fields and the kind name
BitsOf(events, kind) ==
    IF events = <<>> THEN 0
    ELSE BitsOf(Tail(events), kind)
         + (IF HasBoth(Head(events)) /\ Head(events).v["_event"].v = kind
            THEN Head(events).v["_bits"].v ELSE 0)

\* C11: after any sequence of events the aggregate has an entry exactly for
\* the kinds of the events that carry both a kind name and a bit length, the
\* entry is (how many such events, the sum of their bit lengths), and every
\* process() call returned the event it was given.
C11_AggregateIsCountAndBits ==
    /\ DOMAIN event_stats = {k \in {kindA, kindB} : CountOf(Processed, k) > 0}
    /\ \A k \in DOMAIN event_stats :
          event_stats[k] = <<CountOf(Processed, k), BitsOf(Processed, k)>>
    /\ \A i \in DOMAIN trace :
          trace[i].op = "return" =>
              /\ trace[i - 1].op = "process"
              /\ trace[i].val = trace[i - 1].val

\* kind a seen twice and kind b once, among events that lack a field
C11_Witness ==
    /\ Len(Processed) = MaxStatEvents
    /\ kindA \in DOMAIN event_stats
    /\ event_stats[kindA] = <<2, 28>>
    /\ kindB \notin DOMAIN event_stats
    /\ \E i \in DOMAIN Processed : ~HasBoth(Processed[i])

\* the rows finish() printed, after the heading
Rows == SubSeq(stdout, 2, Len(stdout))

\* C12: finish() prints, after its heading, one row per observed kind: the
\* kind's name, its count and floor(bits / 8); the rows are in ascending
\* order of the kinds' bits, and the events (a,16), (b,8), (a,8) print b (1, 1)
\* before a (2, 3).
C12_FinishPrintsSortedRows ==
    pc = "done" =>
        /\ stdout[1] = "Name, Count, Bits"
        /\ Len(Rows) = Cardinality(DOMAIN event_stats)
        /\ \A k \in DOMAIN event_stats :
              \E i \in DOMAIN Rows :
                  Rows[i] = <<k, event_stats[k][1], event_stats[k][2] \div 8>>
        /\ \A i \in 1..(Len(Rows) - 1) :
              event_stats[Rows[i][1]][2] <= event_stats[Rows[i + 1][1]][2]
        /\ Processed = <<KindEvent(kindA, 16), KindEvent(kindB, 8), KindEvent(kindA, 8)>>
              => Rows = <<<<kindB, 1, 1>>, <<kindA, 2, 3>>>>

\* the example's events processed and finished
C12_Witness ==
    /\ pc = "done"
    /\ Processed = <<KindEvent(kindA, 16), KindEvent(kindB, 8), KindEvent(kindA, 8)>>
    /\ Len(stdout) = 3

\* whether val is the init data whose cache handle list is that of handles,
\* each handle replaced by its URI
TranslatedFrom(val, handles) ==
    /\ val.t = "dict"
    /\ DOMAIN val.v = {"m_syncLobbyState"}
    /\ LET list == val.v["m_syncLobbyState"].v["m_gameDescription"].v["m_cacheHandles"].v
       IN  /\ Len(list) = Len(handles)
           /\ \A i \in 1..Len(handles) :
                 /\ cache_handle_uri(handles[i]).err = "none"
                 /\ list[i] = PyStr(cache_handle_uri(handles[i]).val)

\* the deliveries of a stream made before the trace's i-th entry
EarlierDeliveries(i) ==
    {j \in 1..(i - 1) : trace[j].op = "deliver" /\ trace[j].stream = trace[i].stream}

\* whether the value delivered at the trace's i-th entry, of a stream other
\* than the header, is what the stream's decoder returned: as it is, but for
\* the init data, whose handles are translated
AsDecoded(i) ==
    LET stream == trace[i].stream
        val == trace[i].val
    IN  CASE stream = "details" -> val = DetailsEvent
          [] stream = "attributeevents" -> val = AttributesEvent
          [] stream = "initdata" -> \E handles \in HandleLists : TranslatedFrom(val, handles)
          [] stream \in SequenceStreams ->
                val = SeqEvent(stream, Cardinality(EarlierDeliveries(i)))

\* C15: the init data delivered to the chain has a cache handle list as long
\* as the decoded one, its i-th element the URI of the i-th decoded handle,
\* and every other delivered value, the header's among them, is the event as
\* decoded.
C15_OnlyInitDataTranslated ==
    \A i \in DOMAIN trace :
        trace[i].op = "deliver" =>
            IF trace[i].stream = "header"
            THEN trace[i].val.t = "dict" /\ trace[i].val = header
            ELSE AsDecoded(i)

\* what the code does: every delivery but the header's is as C15 says
C15_AllButHeader ==
    \A i \in DOMAIN trace :
        (trace[i].op = "deliver" /\ trace[i].stream # "header") => AsDecoded(i)

\* init data of two handles delivered with two URIs
C15_TwoHandlesTranslated ==
    \E i \in Entries("deliver", "initdata") :
        TranslatedFrom(trace[i].val, <<GoodHandle, SubSeq(GoodHandle, 1, 8)>>)

\* what filter f's process() returns for event
FilterReturn(f, event) ==
    CASE f = "json" -> JSONOutputFilter_process(event)
      [] f = "types" -> TypeDumpFilter_process(event)
      [] f \in {"pretty", "stats"} -> event

RECURSIVE ChainValue(_, _, _)
\* what the k-th filter of fs is handed when event goes through the chain
ChainValue(fs, k, event) ==
    IF k = 1 THEN event
    ELSE FilterReturn(fs[k - 1], ChainValue(fs, k - 1, event))

\* whether the k-th entry after the delivery at i is the k-th filter's call
VisitedBy(i, k) ==
    /\ i + k <= Len(trace)
    /\ trace[i + k].op = "process"
    /\ trace[i + k] = OpProcess(filters[k], trace[i].stream,
                                ChainValue(filters, k, trace[i].val))

\* whether the call at j is some filter's turn in the delivery it follows
InTurn(j) ==
    \E k \in 1..Len(filters) :
        /\ j > k
        /\ trace[j - k].op = "deliver"
        /\ trace[j].filter = filters[k]

\* whether the events of the sequence streams are delivered in the decoder's
\* order, each once
InDecoderOrder ==
    \A i \in DOMAIN trace :
        (trace[i].op = "deliver" /\ trace[i].stream \in SequenceStreams) =>
            trace[i].val = SeqEvent(trace[i].stream, Cardinality(EarlierDeliveries(i)))

\* C17: every delivery is followed by the calls of all the chain's filters,
\* one each and in chain order, the first handed the delivered value and each
\* other the value the filter before it returned, before anything else
\* happens; no filter is called otherwise; and the events of a game, message
\* or tracker stream are delivered in the decoder's order, each once.
C17_EveryFilterVisited ==
    /\ \A i \in DOMAIN trace :
          trace[i].op = "deliver" => \A k \in 1..Len(filters) : VisitedBy(i, k)
    /\ \A j \in DOMAIN trace : trace[j].op = "process" => InTurn(j)
    /\ InDecoderOrder

\* what the code does: a traversal is cut short by the stats collector's
\* TypeError alone, which only the header flag's value raises
C17_VisitedUntilRaise ==
    /\ \A i \in DOMAIN trace :
          trace[i].op = "deliver" =>
              \A k \in 1..Len(filters) :
                  \/ VisitedBy(i, k)
                  \/ /\ trace[i].stream = "header"
                     /\ \E r \in (i + 1)..Min(i + k, Len(trace)) :
                           trace[r] = OpRaise("TypeError", "header")
    /\ \A j \in DOMAIN trace : trace[j].op = "process" => InTurn(j)
    /\ InDecoderOrder

\* two game events through a chain of three filters, one after the other
C17_TwoEventsThreeFilters ==
    /\ Len(filters) = 3
    /\ Cardinality(Entries("deliver", "gameevents")) = 2
    /\ Cardinality(Entries("process", "gameevents")) = 6

(***************************************************************************)
(* Termination.  main() is straight-line code but for the map() calls,     *)
(* whose generators are finite: a run that can take a step does take one.  *)
(***************************************************************************)
\* the command lines termination is checked on: what a run does next depends
\* on --header, --all, the stream flags (here all set or all clear) and
\* --stats, whose collector can raise; the other filters only print and format
InitFair ==
    /\ Init
    /\ args["quiet"] /\ ~args["json"] /\ ~args["types"]
    /\ \A stream \in StreamNames : args[stream] = args["details"]

FairSpec == InitFair /\ [][Next]_vars /\ WF_vars(Next)

\* the place of a position of main() in the order of its text; the three
\* ways a run ends come last
PcRank(p) ==
    CASE p = "start" -> 0
      [] p = "readheader" -> 1
      [] p = "header" -> 2
      [] p = "resolve" -> 3
      [] p \in StreamNames -> 3 + StreamIndex(p)
      [] p = "finish" -> 10
      [] p \in {"done", "unsupported", "crashed"} -> 11

\* the header is decoded once, as the run leaves its first state, and a
\* stream's member is read or decoded only with the protocol resolved
C18_HeaderThenResolution ==
    /\ Cardinality(Entries("decode", "header")) = IF pc \in {"start", "readheader"} THEN 0 ELSE 1
    /\ protocol # 0 => /\ protocol \in RegisteredBuilds
                       /\ PcRank(pc) > PcRank("resolve")
    /\ \A i \in DOMAIN trace :
          (trace[i].op \in {"read", "decode"} /\ trace[i].stream # "header") =>
              /\ protocol # 0
              /\ \E j \in 1..(i - 1) : trace[j] = OpDecode("header")

\* every step moves main() forward, or stays within a map() call that has
\* read its member or delivered one more event
C18_Forward ==
    \/ PcRank(pc') > PcRank(pc)
    \/ /\ pc' = pc
       /\ pc \in SequenceStreams
       /\ Len(trace') > Len(trace)

\* C18: a run moves forward only, from its start over the decoded header and
\* the resolved protocol through the streams to the finish() calls, never
\* back; it decodes the header once, before it resolves the protocol, and
\* reads and decodes no stream before; and it ends, finalized or aborted.
C18_Terminates ==
    /\ []C18_HeaderThenResolution
    /\ [][C18_Forward]_vars
    /\ <>Terminated

\* no step of any run goes back
C18_NeverBack == [][C18_Forward]_vars

\* a run over all six streams, the sequence streams not empty, finalized
C18_Witness ==
    /\ pc = "done"
    /\ emitted = MaxEvents
    /\ \A stream \in StreamNames : Entries("read", stream) # {}

\* whether the trace's i-th entry is an exception raised by a filter's
\* process(): the stats collector's TypeError
FilterRaised(i) == trace[i].op = "raise" /\ trace[i].err = "TypeError"

\* C19: once a filter's process() has raised, nothing follows: no filter is
\* called for that event or any other, nothing more is delivered, no finish()
\* is called and no summary printed; the run has ended with exit status 1.
C19_FilterFailureIsFatal ==
    \A i \in DOMAIN trace :
        FilterRaised(i) =>
            /\ i = Len(trace)
            /\ trace[i - 1].op = "process"
            /\ pc = "crashed"
            /\ exitcode = 1
            /\ Finished = <<>>
            /\ Len(stdout) = Cardinality(Calls("pretty"))
            /\ ~ENABLED Next

\* the stats collector raised in a chain of three filters, in a run that
\* asked for every stream
C19_Witness ==
    /\ Len(filters) = 3
    /\ filters[1] = "stats"
    /\ args["all"]
    /\ Len(trace) = 4
    /\ trace[2] = OpDeliver("header", PyBool(TRUE))
    /\ trace[3] = OpProcess("stats", "header", PyBool(TRUE))
    /\ FilterRaised(4)

\* whether the command line asks for the stream: its own flag or --all
Asked(stream) == args["all"] \/ args[stream]

\* whether nothing of the stream is in the trace: no read, no decode, no
\* delivery, no filter call
Untouched(stream) ==
    \A i \in DOMAIN trace : trace[i].op \in StreamOps => trace[i].stream # stream

\* whether the stream's member was read once and its decoder called once
ReadAndDecodedOnce(stream) ==
    /\ Cardinality(Entries("read", stream)) = 1
    /\ Cardinality(Entries("decode", stream)) = 1

\* C20, as stated, for the runs that complete: a stream not asked for is
\* never touched, and every stream asked for has been read and decoded
\* exactly once.
C20_EveryRequestedStreamRead ==
    /\ \A stream \in StreamNames : ~Asked(stream) => Untouched(stream)
    /\ pc = "done" => \A stream \in StreamNames : Asked(stream) => ReadAndDecodedOnce(stream)

\* C20, amended: a stream not asked for is never touched; no stream is read
\* or decoded twice; a completed run has read and decoded exactly once every
\* stream asked for that the resolved module can decode, whatever the chain,
\* and has not touched tracker events its module cannot decode.
C20_RequestedDecodableStreamRead ==
    /\ \A stream \in StreamNames :
          /\ ~Asked(stream) => Untouched(stream)
          /\ Cardinality(Entries("read", stream)) <= 1
          /\ Cardinality(Entries("decode", stream)) <= 1
    /\ pc = "done" =>
          \A stream \in StreamNames :
              Asked(stream) => IF HasDecoder(stream) THEN ReadAndDecodedOnce(stream)
                                                     ELSE Untouched(stream)

\* a completed run with no filter at all that read the two streams asked for
\* and no other
C20_Witness ==
    /\ pc = "done"
    /\ filters = <<>>
    /\ \A stream \in StreamNames : Asked(stream) <=> stream \in {"details", "gameevents"}
    /\ ReadAndDecodedOnce("details")
    /\ ReadAndDecodedOnce("gameevents")
    /\ Cardinality(Entries("deliver", "gameevents")) = MaxEvents

====
